---- MODULE Spec2Model ----
(***************************************************************************)
(* The stock-analysis view (frontend/src/components/StockAnalysis.tsx) and *)
(* its API client (getStockAnalysis), as a state machine.                  *)
(*                                                                         *)
(* Strings the code inspects character by character (the ticker text) are  *)
(* sequences of one-character strings; messages are TLA+ strings.  A value *)
(* that may be JavaScript null/undefined is an option: <<>> for null,      *)
(* <<v>> for the value v.                                                  *)
(***************************************************************************)
EXTENDS Integers, Sequences, FiniteSets, TLC

\* ---------------------------------------------------------------- bounds
\* Longest ticker text the input box is given.
MaxLen == 2
\* Requests issued in one run (caps the request counter).
MaxRequests == 2

\* ------------------------------------------------------------ JS values
NULL == <<>>
Some(v) == <<v>>

\* The characters of the ticker texts: a whitespace character, a lowercase
\* letter and its uppercase form.
Chars == {" ", "a", "A"}
Texts == UNION {[1..n -> Chars] : n \in 0..MaxLen}

\* The values one keystroke in the input box turns the text t into: t with a
\* character typed at its end, or with its last character deleted.
Keystrokes(t) ==
    {u \in {Append(t, c) : c \in Chars} : u \in Texts}
        \cup (IF t = <<>> THEN {} ELSE {SubSeq(t, 1, Len(t) - 1)})

\* String.prototype.trim / toUpperCase, character by character.
IsWhiteSpace(c) == c = " "
UpperChar(c) == IF c = "a" THEN "A" ELSE c
ToUpperCase(s) == [i \in 1..Len(s) |-> UpperChar(s[i])]

RECURSIVE TrimStart(_)
TrimStart(s) ==
    IF s = <<>> THEN s
    ELSE IF IsWhiteSpace(Head(s)) THEN TrimStart(Tail(s)) ELSE s

RECURSIVE TrimEnd(_)
TrimEnd(s) ==
    IF s = <<>> THEN s
    ELSE IF IsWhiteSpace(s[Len(s)]) THEN TrimEnd(SubSeq(s, 1, Len(s) - 1)) ELSE s

Trim(s) == TrimEnd(TrimStart(s))

\* JavaScript truthiness of a string-or-null and of an object-or-null.
TruthyString(o) == o # NULL /\ o[1] # ""
TruthyObject(o) == o # NULL

\* ------------------------------------------------------------ API client
API_BASE_URL == "http://localhost:8000"

\* `${API_BASE_URL}/api/stock/${ticker}`: the string handed to fetch(), the
\* template's pieces followed by the characters of the ticker argument.
FetchArgument(tk) == <<API_BASE_URL, "/api/stock/">> \o tk

\* The URL of the request fetch() makes of that string.  fetch parses its
\* argument as a URL: spaces at the end of the string are stripped, a space
\* left inside the path is percent-encoded.
UrlEncodeChar(c) == IF c = " " THEN "%20" ELSE c
RequestUrl(tk) ==
    <<API_BASE_URL, "/api/stock/">> \o
        [i \in 1..Len(TrimEnd(tk)) |-> UrlEncodeChar(TrimEnd(tk)[i])]

FallbackMessage == "Failed to fetch stock data"
ValidationMessage == "Please enter a stock ticker symbol"

\* What fetch() rejects with when the transport fails: a TypeError whose
\* message is the engine's description of the cause.
TransportMessages == {"Failed to fetch"}

\* Response bodies.  "invalid": text that is not JSON, response.json()
\* rejects with a SyntaxError carrying `message`.  "null": the JSON text
\* null.  "object": a JSON object; `detail` the option of its detail
\* string, `id` standing for the rest of its fields (two analysis payloads
\* and two error bodies).
JsonSyntaxMessage == "Unexpected token '<', \"<html>\" is not valid JSON"
NullDetailMessage == "Cannot read properties of null (reading 'detail')"
Details == {NULL, Some(""), Some("Ticker not found")}
Objects ==
    {[type |-> "object", detail |-> NULL, id |-> 1],
     [type |-> "object", detail |-> NULL, id |-> 2],
     [type |-> "object", detail |-> Some(""), id |-> 1],
     [type |-> "object", detail |-> Some("Ticker not found"), id |-> 1]}
InvalidBody == [type |-> "invalid", message |-> JsonSyntaxMessage]
JsonNull == [type |-> "null"]
Bodies == {InvalidBody, JsonNull} \cup Objects

\* response.json(): the parsed value, or the SyntaxError it rejects with.
Threw(m) == [threw |-> TRUE, isError |-> TRUE, message |-> m, value |-> NULL]
Returned(v) == [threw |-> FALSE, isError |-> FALSE, message |-> "", value |-> v]

ResponseJson(body) ==
    CASE body.type = "invalid" -> Threw(body.message)
      [] body.type = "null" -> Returned(NULL)
      [] OTHER -> Returned(Some(body))

\* errorData.detail || 'Failed to fetch stock data', errorData an object.
DetailOrFallback(obj) ==
    IF TruthyString(obj.detail) THEN obj.detail[1] ELSE FallbackMessage

\* The branch taken on !response.ok: parse the body, read its detail, throw.
ErrorBranch(body) ==
    LET errorData == ResponseJson(body) IN
    IF errorData.threw THEN errorData
    ELSE IF errorData.value = NULL THEN Threw(NullDetailMessage)
    ELSE Threw(DetailOrFallback(errorData.value[1]))

\* getStockAnalysis once fetch has resolved with a response.
GetStockAnalysisResponse(ok, body) ==
    IF ~ok THEN ErrorBranch(body) ELSE ResponseJson(body)

\* getStockAnalysis when fetch itself rejects.
GetStockAnalysisRejected(m) == Threw(m)

\* console.error('Error fetching stock data:', error) in the client's catch.
LoggedBy(outcome, previous) ==
    IF outcome.threw THEN Some(outcome.message) ELSE previous

\* ------------------------------------------------------------------ view
VARIABLES
    ticker,       \* useState(''): the input's text
    loading,      \* useState(false)
    error,        \* useState<string | null>(null)
    stockData,    \* useState<any>(null)
    pending,      \* calls of getStockAnalysis that have not settled
    issued,       \* number of fetch calls made so far
    consoleError, \* message of the last error given to console.error
    resultTicker, \* history: argument of the call whose result is in stockData
    resent        \* history: the latest call repeated the argument of the
                  \* call whose result was held when it was made

vars == <<ticker, loading, error, stockData, pending, issued, consoleError,
          resultTicker, resent>>

Init ==
    /\ ticker = <<>>
    /\ loading = FALSE
    /\ error = NULL
    /\ stockData = NULL
    /\ pending = {}
    /\ issued = 0
    /\ consoleError = NULL
    /\ resultTicker = NULL
    /\ resent = FALSE

\* ------------------------------------------------------------- rendering
\* {error && (...)}, {stockData && (...)}, disabled={loading}
ErrorBannerShown == TruthyString(error)
ResultPanelsShown == TruthyObject(stockData)
SubmitDisabled == loading
\* ({ticker.toUpperCase()}) in the company header
HeaderTicker == ToUpperCase(ticker)

\* -------------------------------------------------------------- handlers
\* onChange={(e) => setTicker(e.target.value)}
SetTicker(t) ==
    /\ ticker' = t
    /\ UNCHANGED <<loading, error, stockData, pending, issued, consoleError,
                   resultTicker, resent>>

\* if (!ticker.trim()): the empty string is the only falsy string.
ValidationFails(t) == Trim(t) = <<>>

\* The argument handleSubmit gives getStockAnalysis.
RequestTicker(t) == ToUpperCase(t)

\* The state handleSubmit leaves when validation fails: setError(...); return.
RejectedSubmit ==
    [error |-> Some(ValidationMessage), stockData |-> stockData, loading |-> loading]

\* A handleSubmit that forgets setLoading(true).
StartedSubmit_NoLoading ==
    [error |-> NULL, stockData |-> stockData, loading |-> loading]

\* The state handleSubmit leaves at its await: setLoading(true); setError(null).
StartedSubmit ==
    [error |-> NULL, stockData |-> stockData, loading |-> TRUE]

\* handleSubmit up to its return or its await.  The handler itself does not
\* look at loading.
HandleSubmit ==
    /\ IF ValidationFails(ticker)
       THEN /\ error' = RejectedSubmit.error
            /\ stockData' = RejectedSubmit.stockData
            /\ loading' = RejectedSubmit.loading
            /\ UNCHANGED <<pending, issued, resent>>
       ELSE /\ issued < MaxRequests
            /\ error' = StartedSubmit.error
            /\ stockData' = StartedSubmit.stockData
            /\ loading' = StartedSubmit.loading
            /\ issued' = issued + 1
            /\ pending' = pending \cup
                   {[id |-> issued + 1, method |-> "GET",
                     fetchArg |-> FetchArgument(RequestTicker(ticker)),
                     url |-> RequestUrl(RequestTicker(ticker)),
                     ticker |-> RequestTicker(ticker),
                     phase |-> "fetch", ok |-> FALSE]}
            /\ resent' = (resultTicker = Some(RequestTicker(ticker)))
    /\ UNCHANGED <<ticker, consoleError, resultTicker>>

\* The state handleSubmit leaves once getStockAnalysis has settled:
\* setStockData(data) / catch: setError(...), setStockData(null) / finally.
CatchMessage(outcome) ==
    IF outcome.isError THEN outcome.message ELSE FallbackMessage

\* A catch block that forgets setStockData(null).
SettledSubmit_KeepsData(outcome) ==
    IF outcome.threw
    THEN [error |-> Some(CatchMessage(outcome)), stockData |-> stockData, loading |-> FALSE]
    ELSE [error |-> error, stockData |-> outcome.value, loading |-> FALSE]

SettledSubmit(outcome) ==
    IF outcome.threw
    THEN [error |-> Some(CatchMessage(outcome)), stockData |-> NULL, loading |-> FALSE]
    ELSE [error |-> error, stockData |-> outcome.value, loading |-> FALSE]

Settle(r, outcome) ==
    /\ pending' = pending \ {r}
    /\ consoleError' = LoggedBy(outcome, consoleError)
    /\ error' = SettledSubmit(outcome).error
    /\ stockData' = SettledSubmit(outcome).stockData
    /\ loading' = SettledSubmit(outcome).loading
    /\ resultTicker' = IF SettledSubmit(outcome).stockData = NULL
                       THEN NULL ELSE Some(r.ticker)
    /\ UNCHANGED <<ticker, issued, resent>>

\* fetch() rejects: the request could not complete.
FetchRejects(r, m) ==
    /\ r \in pending
    /\ r.phase = "fetch"
    /\ Settle(r, GetStockAnalysisRejected(m))

\* fetch() resolves with a response of status ok or not; the client goes on
\* to await response.json().
FetchResolves(r, ok) ==
    /\ r \in pending
    /\ r.phase = "fetch"
    /\ pending' = (pending \ {r}) \cup {[r EXCEPT !.phase = "json", !.ok = ok]}
    /\ UNCHANGED <<ticker, loading, error, stockData, issued, consoleError,
                   resultTicker, resent>>

\* response.json() settles on the body.
JsonSettles(r, body) ==
    /\ r \in pending
    /\ r.phase = "json"
    /\ Settle(r, GetStockAnalysisResponse(r.ok, body))

Edit == \E t \in Keystrokes(ticker) : SetTicker(t)
\* <form onSubmit={handleSubmit}> with <button type="submit" disabled={loading}>:
\* the form's submit event comes from its submit button (a click, or Enter in
\* the input through it), and a disabled button delivers none.
Submit == ~SubmitDisabled /\ HandleSubmit
Reject == \E r \in pending, m \in TransportMessages : FetchRejects(r, m)
Respond == \E r \in pending, ok \in BOOLEAN : FetchResolves(r, ok)
Body == \E r \in pending, body \in Bodies : JsonSettles(r, body)

Next == Edit \/ Submit \/ Reject \/ Respond \/ Body

Spec == Init /\ [][Next]_vars
\* ---------------------------------------------------------------- claims
\* The view states of the rendering contract.
FailureView == ErrorBannerShown /\ ~loading /\ ~ResultPanelsShown
ValidSubmit == Submit /\ ~ValidationFails(ticker)
EmptySubmit == Submit /\ ValidationFails(ticker)

\* C1: a Submit with an empty or whitespace-only ticker, from Idle, Success or
\* Failure, issues no request and leaves the Failure view (banner shown, not
\* loading, no result panels) with the validation message.
C1_EmptySubmitFails ==
    [][EmptySubmit =>
        /\ pending' = pending
        /\ issued' = issued
        /\ error' = Some(ValidationMessage)
        /\ FailureView']_vars

\* C2: a Submit with a ticker that is non-empty after trimming moves to
\* Loading and issues exactly one GET request, whose URL is the one of
\* /api/stock/ followed by the trimmed, uppercased ticker.
C2_RequestForTrimmedUpper ==
    [][ValidSubmit =>
        /\ loading'
        /\ issued' = issued + 1
        /\ \E r \in pending' \ pending :
              /\ pending' = pending \cup {r}
              /\ r.method = "GET"
              /\ r.url = RequestUrl(ToUpperCase(Trim(ticker)))]_vars

\* C3: a non-success response whose body cannot be parsed displays exactly
\* the fallback message.
C3_UnparseableBodyFallback ==
    [][\A r \in pending :
          (~r.ok /\ JsonSettles(r, InvalidBody)) =>
              error' = Some(FallbackMessage)]_vars

\* C4: when fetch itself rejects, the view ends in Failure, the cause is
\* logged, and the cause's message is not the text of the view's error state.
C4_CauseNotShown ==
    [][\A r \in pending, m \in TransportMessages :
          FetchRejects(r, m) =>
              /\ FailureView'
              /\ consoleError' = Some(m)
              /\ error' # Some(m)]_vars

\* C5: the error banner and the result panels are never shown together.
C5_ViewsExclusive == ~(ErrorBannerShown /\ ResultPanelsShown)

\* C6: at most one request is in flight; while one is, loading is true, the
\* submit control is disabled and no Submit can take place.
C6_SingleFlight ==
    /\ Cardinality(pending) <= 1
    /\ pending # {} => (loading /\ SubmitDisabled /\ ~ENABLED Submit)

\* C6 witness: a second request in flight, the first having settled.
C6_Witness == pending # {} /\ issued >= 2 /\ loading

\* C7: a non-success response with a parseable body displays the body's
\* detail string when the field is present, the fallback message when absent.
BodyDetail(b) == IF b.type = "object" THEN b.detail ELSE NULL
C7_DetailShown ==
    [][\A r \in pending, b \in Bodies \ {InvalidBody} :
          (~r.ok /\ JsonSettles(r, b)) =>
              error' = Some(IF BodyDetail(b) # NULL THEN BodyDetail(b)[1]
                            ELSE FallbackMessage)]_vars

\* C8: every valid Submit issues a request of its own, and when a request
\* settles the state reflects that response alone, whatever the earlier one
\* left: on success the result is its payload and error is null, on failure
\* the error is its message and the result is null; loading is false.
ReflectsNext(o) ==
    /\ ~loading'
    /\ IF o.threw
       THEN error' = Some(o.message) /\ stockData' = NULL
       ELSE stockData' = o.value /\ error' = NULL
C8_LastResponseWins ==
    [][/\ ValidSubmit => Cardinality(pending' \ pending) = 1
       /\ \A r \in pending :
            /\ \A b \in Bodies :
                 JsonSettles(r, b) => ReflectsNext(GetStockAnalysisResponse(r.ok, b))
            /\ \A m \in TransportMessages :
                 FetchRejects(r, m) => ReflectsNext(GetStockAnalysisRejected(m))]_vars

\* C8 witness: the ticker of a displayed result was submitted again, and the
\* second request has settled with the second payload.
C8_Witness ==
    /\ resent /\ issued >= 2 /\ pending = {}
    /\ ~loading /\ error = NULL
    /\ stockData = Some([type |-> "object", detail |-> NULL, id |-> 2])

\* C9: while a request is in flight no result of an earlier lookup is held
\* or shown.
C9_NoResultWhileLoading == pending # {} => (stockData = NULL /\ ~ResultPanelsShown)

\* C10: whenever result panels are shown, the ticker in the company header
\* is the uppercased ticker sent in the request that produced the result.
C10_HeaderIsRequestedTicker == ResultPanelsShown => resultTicker = Some(HeaderTicker)
====
